---- MODULE Spec2Model ----
(***************************************************************************)
(* Model of src/main.py: SystemInfoCollector and the __main__ block.       *)
(*                                                                         *)
(* Python strings are sequences of one-character strings, so that strip(), *)
(* int(), truthiness and str() are computed rather than assumed.  Record   *)
(* values are tagged: a str, a float rounded to two decimals (held as an   *)
(* integer number of hundredths) or None.  A dict is a sequence of         *)
(* key/value pairs in insertion order.                                     *)
(***************************************************************************)
EXTENDS Integers, Sequences, FiniteSets, TLC

VARIABLES
    system,      \* self.system, platform.system() at construction
    wmiModule,   \* whether `import wmi` succeeds on this machine
    specs,       \* self.specs, the ordered record
    pc,          \* position of the main sequence
    gpuRet,      \* value returned by get_gpu_info
    exc,         \* exception raised inside the try block ("" when none)
    out,         \* lines printed to standard output
    csvFile,     \* the CSV report on disk
    jsonFile,    \* the JSON report on disk
    fileBase,    \* filename_base of save_results
    prompts,     \* number of times the exit prompt was shown
    calls,       \* log of get_command_output calls: command, success, result
    lastCall,    \* the get_command_output call made by the latest step, if any
    attempted,   \* fields whose assignment statement has been reached
    winPath,     \* branch get_windows_info took: "none", "wmi" or "fallback"
    gpuIdx       \* i of the merge loop, the number of descriptors merged

vars == <<system, wmiModule, specs, pc, gpuRet, exc, out, csvFile, jsonFile,
          fileBase, prompts, calls, lastCall, attempted, winPath, gpuIdx>>

----------------------------------------------------------------------------
(* Bounds of the model *)

\* longest run of whitespace around a command's output or the typed name
MaxPad == 1
\* most video controllers the management interface lists
MaxGpus == 2
\* most disk drives the management interface lists
MaxDisks == 2

----------------------------------------------------------------------------
(* Python values *)

NotAvailable == <<"N","o","t"," ","a","v","a","i","l","a","b","l","e">>
Unknown == <<"U","n","k","n","o","w","n">>

Whitespace == {" ", "\n", "\t"}
Digits == {"0","1","2","3","4","5","6","7","8","9"}

StrV(s) == [t |-> "str", s |-> s, n |-> 0]
NumV(h) == [t |-> "num", s |-> <<>>, n |-> h]
NoneV == [t |-> "none", s |-> <<>>, n |-> 0]

\* str.strip(): leading and trailing whitespace removed, interior kept
RECURSIVE LStrip(_)
LStrip(s) == IF s # <<>> /\ Head(s) \in Whitespace THEN LStrip(Tail(s)) ELSE s

RECURSIVE RStrip(_)
RStrip(s) ==
    IF s # <<>> /\ s[Len(s)] \in Whitespace
    THEN RStrip(SubSeq(s, 1, Len(s) - 1))
    ELSE s

StripLeftOnly(s) == LStrip(s)

Strip(s) == RStrip(LStrip(s))

DigitVal(c) ==
    CASE c = "0" -> 0 [] c = "1" -> 1 [] c = "2" -> 2 [] c = "3" -> 3
      [] c = "4" -> 4 [] c = "5" -> 5 [] c = "6" -> 6 [] c = "7" -> 7
      [] c = "8" -> 8 [] c = "9" -> 9

DigitChar(d) ==
    CASE d = 0 -> "0" [] d = 1 -> "1" [] d = 2 -> "2" [] d = 3 -> "3"
      [] d = 4 -> "4" [] d = 5 -> "5" [] d = 6 -> "6" [] d = 7 -> "7"
      [] d = 8 -> "8" [] d = 9 -> "9"

\* int(s) / float(s) succeed on the texts of the model exactly when s is a
\* non-empty run of decimal digits (no sign, underscore or exponent occurs
\* in the command outputs drawn below)
IsNumeric(s) == s # <<>> /\ \A i \in 1..Len(s) : s[i] \in Digits

RECURSIVE ParseInt(_)
ParseInt(s) ==
    IF s = <<>> THEN 0
    ELSE 10 * ParseInt(SubSeq(s, 1, Len(s) - 1)) + DigitVal(s[Len(s)])

RECURSIVE IntStr(_)
IntStr(n) ==
    IF n < 10 THEN <<DigitChar(n)>>
    ELSE Append(IntStr(n \div 10), DigitChar(n % 10))

\* round(num / den, 2), in hundredths; round() resolves an exact tie to the
\* even neighbour, and num / den is exact for the powers of two used here
Round2(num, den) ==
    LET q == (num * 100) \div den
        r == (num * 100) % den
    IN  IF r < den - r THEN q
        ELSE IF r > den - r THEN q + 1
        ELSE IF q % 2 = 0 THEN q ELSE q + 1

\* str() of a float holding at most two decimals: 1600 -> "16.0", 2 -> "0.02"
FloatStr(h) ==
    LET frac == h % 100
    IN  IntStr(h \div 100) \o <<".">> \o
        (IF frac % 10 = 0 THEN <<DigitChar(frac \div 10)>>
         ELSE <<DigitChar(frac \div 10), DigitChar(frac % 10)>>)

\* str(value)
PyStr(v) ==
    CASE v.t = "str" -> v.s
      [] v.t = "num" -> FloatStr(v.n)
      [] v.t = "none" -> <<"N","o","n","e">>

----------------------------------------------------------------------------
(* Ordered dict *)

Keys(d) == [i \in 1..Len(d) |-> d[i].k]
KeySet(d) == {d[i].k : i \in 1..Len(d)}
HasKey(d, k) == k \in KeySet(d)
Get(d, k, default) ==
    IF HasKey(d, k)
    THEN d[CHOOSE i \in 1..Len(d) : d[i].k = k].v
    ELSE default

\* d[k] = v: an existing key keeps its position, a new key goes last
SetItem(d, k, v) ==
    IF HasKey(d, k)
    THEN [i \in 1..Len(d) |-> IF d[i].k = k THEN [k |-> k, v |-> v] ELSE d[i]]
    ELSE Append(d, [k |-> k, v |-> v])

----------------------------------------------------------------------------
(* What the environment can answer *)

Systems == {"Linux", "Darwin", "Windows", "FreeBSD"}
Recognized == {"Linux", "Darwin", "Windows"}

Pad(i) == [k \in 1..i |-> IF k % 2 = 1 THEN "\n" ELSE " "]
Padded(cores) ==
    {Pad(i) \o c \o Pad(j) : i \in 0..MaxPad, j \in 0..MaxPad, c \in cores}

\* captured standard output of a command: a text; for the GPU probes and
\* the memory-size commands also nothing; for the memory-size commands also
\* a number
SomeText == <<"a", " ", "b">>
SomeNumber == <<"1","6","7","7","7","2","1","6">>
MemoryCommands == {"meminfo", "sysctl memsize", "wmic computersystem memory"}
GpuCommands ==
    {"lspci", "nvidia-smi", "glxinfo", "system_profiler displays",
     "wmic videocontroller"}
CmdTexts(cmd) ==
    IF cmd \in MemoryCommands THEN {<<>>, SomeText, SomeNumber}
    ELSE IF cmd \in GpuCommands THEN {<<>>, SomeText}
    ELSE {SomeText}
\* a command fails (its output, if any, is discarded with the exception)
\* or succeeds with some captured output
CmdOutcomes(cmd) ==
    {[ok |-> FALSE, raw |-> <<>>]} \cup [ok : {TRUE}, raw : Padded(CmdTexts(cmd))]

\* what the user types at the report-name prompt
TypedNames == Padded({<<>>, <<"r">>})

\* attribute values of the management interface's objects
WmiTexts == {StrV(<<"w">>), NoneV}
WmiSizes == {StrV(SomeNumber), NoneV}
IntV(n) == [t |-> "int", s |-> <<>>, n |-> n]
WmiAdapterRams == {IntV(16777216), IntV(0), NoneV}

SeqsUpTo(S, n) == UNION {[1..m -> S] : m \in 0..n}

NoExc == ""
NoCall == [made |-> FALSE, ok |-> FALSE, raw |-> <<>>, res |-> <<>>]
NoFile == [exists |-> FALSE, rows |-> <<>>]
PyNone == [none |-> TRUE, list |-> <<>>]
PyList(l) == [none |-> FALSE, list |-> l]

----------------------------------------------------------------------------
(* Pure parts of SystemInfoCollector *)

get_command_output_untrimmed(o) == IF o.ok THEN o.raw ELSE NotAvailable

get_command_output_empty_on_failure(o) == IF o.ok THEN Strip(o.raw) ELSE <<>>

\* lines 15-20: trimmed standard output, or the sentinel on any exception
get_command_output(o) == IF o.ok THEN Strip(o.raw) ELSE NotAvailable

\* lines 27-30: kilobytes to gigabytes, "Unknown" when int() raises
linux_ram_gb(mem_kb) ==
    IF IsNumeric(mem_kb)
    THEN NumV(Round2(ParseInt(mem_kb), 1024 * 1024))
    ELSE StrV(Unknown)

\* lines 48-51: bytes to gigabytes, "Unknown" when int() raises
mac_ram_gb(ram_bytes) ==
    IF IsNumeric(ram_bytes)
    THEN NumV(Round2(ParseInt(ram_bytes), 1024 * 1024 * 1024))
    ELSE StrV(Unknown)

\* float(x) raises on None (TypeError) and on a non-numeric text (ValueError)
FloatRaises(v) == ~(v.t = "str" /\ IsNumeric(v.s))

\* lines 69 and 74: round(float(x) / 1024**3, 2)
wmi_gb(v) == Round2(ParseInt(v.s), 1024 * 1024 * 1024)

\* line 75: f"{disk.Model} ({size_gb} GB)"
disk_text(disk) ==
    PyStr(disk.Model) \o <<" ", "(">> \o FloatStr(wmi_gb(disk.Size))
        \o <<" ", "G", "B", ")">>

\* line 76: ', '.join(disks)
RECURSIVE join_disks(_)
join_disks(disks) ==
    IF disks = <<>> THEN <<>>
    ELSE IF Len(disks) = 1 THEN disk_text(disks[1])
    ELSE disk_text(disks[1]) \o <<",", " ">> \o join_disks(Tail(disks))

\* line 95: the Memory entry of a video controller
gpu_memory(ram) ==
    IF ram.t = "none" \/ ram.n = 0
    THEN StrV(Unknown)
    ELSE StrV(FloatStr(Round2(ram.n, 1024 * 1024 * 1024)) \o <<" ", "G", "B">>)

\* lines 93-97: the dict built for one video controller
Structured(gpu) ==
    [dict |-> TRUE,
     items |-> <<[k |-> "Name", v |-> gpu.Name],
                 [k |-> "Memory", v |-> gpu_memory(gpu.AdapterRAM)],
                 [k |-> "Driver_Version", v |-> gpu.DriverVersion]>>,
     text |-> <<>>]

WrapperBare(gpu_info) == [dict |-> FALSE, items |-> <<>>, text |-> gpu_info]

\* lines 102, 114, 118: {'Name': gpu_info}
Wrapper(gpu_info) ==
    [dict |-> TRUE,
     items |-> <<[k |-> "Name", v |-> StrV(gpu_info)]>>,
     text |-> <<>>]

\* f'GPU_{n}{suffix}'
GpuKey(n, suffix) == "GPU_" \o ToString(n) \o suffix

GpuIndexZeroBased(i) == i

\* lines 139-143: enumerate() counts from 0, the keys from 1
GpuIndex(i) == i + 1

\* lines 162-166: the base name of both reports
Timestamp == <<"2","0","2","6","1","1","0","1","_","1","2","0","0","0","0">>
DefaultName == <<"s","y","s","t","e","m","_","i","n","f","o">>
filename_base(typed) ==
    (IF Strip(typed) = <<>> THEN DefaultName ELSE Strip(typed))
        \o <<"_">> \o Timestamp

CsvRowsSkipNone(d) ==
    <<[k |-> "Specification", v |-> <<"V","a","l","u","e">>]>> \o
    SelectSeq([i \in 1..Len(d) |-> [k |-> d[i].k, v |-> PyStr(d[i].v)]],
              LAMBDA row : row.v # <<"N","o","n","e">>)

\* lines 176-178: the header row, then one row per item with str(value)
CsvRows(d) ==
    <<[k |-> "Specification", v |-> <<"V","a","l","u","e">>]>> \o
    [i \in 1..Len(d) |-> [k |-> d[i].k, v |-> PyStr(d[i].v)]]

\* json.dump of one value: a str stays a string, a float a number, None null
JsonValue(v) ==
    CASE v.t = "str" -> [jt |-> "string", s |-> v.s, n |-> 0]
      [] v.t = "num" -> [jt |-> "number", s |-> <<>>, n |-> v.n]
      [] v.t = "none" -> [jt |-> "null", s |-> <<>>, n |-> 0]

\* line 183: the object written, members in the dict's order
JsonDump(d) == [i \in 1..Len(d) |-> [k |-> d[i].k, v |-> JsonValue(d[i].v)]]

----------------------------------------------------------------------------
(* The run: lines 187-201 and the methods they call *)

CommonFields == <<"OS", "Hostname", "OS_Version", "Architecture", "Scan_Date">>

\* values of platform.platform(), node(), version(), machine() and of
\* datetime.now().strftime('%Y-%m-%d %H:%M:%S'): non-empty texts
PlatformText(field) ==
    CASE field = "OS" -> <<"o">>
      [] field = "Hostname" -> <<"h">>
      [] field = "OS_Version" -> <<"v">>
      [] field = "Architecture" -> <<"m">>
      [] field = "Scan_Date" ->
            <<"2","0","2","6","-","1","1","-","0","1"," ",
              "1","2",":","0","0",":","0","0">>

\* lines 129-134: where collect_info goes after the common fields
PlatformEntry ==
    CASE system = "Linux" -> "l_cpu"
      [] system = "Darwin" -> "m_serial"
      [] system = "Windows" -> "w_import"
      [] OTHER -> "gpu"

\* lines 11-13 and 189: the collector has been constructed
Init ==
    /\ system \in Systems
    /\ wmiModule \in (IF system = "Windows" THEN BOOLEAN ELSE {FALSE})
    /\ specs = <<>>
    /\ pc = "collect"
    /\ gpuRet = PyNone
    /\ exc = NoExc
    /\ out = <<>>
    /\ csvFile = NoFile
    /\ jsonFile = NoFile
    /\ fileBase = <<>>
    /\ prompts = 0
    /\ calls = <<>>
    /\ lastCall = NoCall
    /\ attempted = {}
    /\ winPath = "none"
    /\ gpuIdx = 0

\* an exception leaves the try block for the handler of line 198
Raise(e) == exc' = e /\ pc' = "except"

\* one get_command_output call by the step being taken
Called(cmd, o) ==
    /\ calls' = Append(calls, [cmd |-> cmd, ok |-> o.ok, out |-> get_command_output(o)])
    /\ lastCall' = [made |-> TRUE, ok |-> o.ok, raw |-> o.raw,
                    res |-> get_command_output(o)]

\* self.specs[field] = value, value computed from the call's outcome o
Store(field, cmd, o, value, next) ==
    /\ Called(cmd, o)
    /\ specs' = SetItem(specs, field, value)
    /\ attempted' = attempted \cup {field}
    /\ pc' = next
    /\ UNCHANGED <<system, wmiModule, gpuRet, exc, out, csvFile, jsonFile,
                   fileBase, prompts, winPath, gpuIdx>>

\* self.specs[field] = self.get_command_output(cmd)
RunField(field, cmd, next) ==
    \E o \in CmdOutcomes(cmd) :
        Store(field, cmd, o, StrV(get_command_output(o)), next)

\* lines 122-126
RECURSIVE SetCommon(_, _)
SetCommon(d, fields) ==
    IF fields = <<>> THEN d
    ELSE SetCommon(SetItem(d, Head(fields), StrV(PlatformText(Head(fields)))),
                   Tail(fields))

CollectCommon ==
    /\ pc = "collect"
    /\ specs' = SetCommon(specs, CommonFields)
    /\ pc' = PlatformEntry
    /\ lastCall' = NoCall
    /\ UNCHANGED <<system, wmiModule, gpuRet, exc, out, csvFile, jsonFile,
                   fileBase, prompts, calls, attempted, winPath, gpuIdx>>

(* get_linux_info, lines 22-38 *)
LinuxCpu == pc = "l_cpu" /\ RunField("CPU", "lscpu", "l_ram")
LinuxRam ==
    /\ pc = "l_ram"
    /\ \E o \in CmdOutcomes("meminfo") :
          Store("RAM_GB", "meminfo", o, linux_ram_gb(get_command_output(o)),
                "l_storage")
LinuxStorage == pc = "l_storage" /\ RunField("Storage", "df", "l_serial")
LinuxSerial ==
    pc = "l_serial" /\ RunField("Serial_Number", "dmidecode serial", "l_model")
LinuxModel == pc = "l_model" /\ RunField("Model", "dmidecode product", "l_manuf")
LinuxManufacturer ==
    pc = "l_manuf" /\ RunField("Manufacturer", "dmidecode manufacturer", "gpu")

(* get_mac_info, lines 40-53 *)
MacSerial ==
    pc = "m_serial" /\ RunField("Serial_Number", "system_profiler serial", "m_model")
MacModel == pc = "m_model" /\ RunField("Model", "system_profiler model", "m_cpu")
MacCpu == pc = "m_cpu" /\ RunField("CPU", "sysctl brand", "m_ram")
MacRam ==
    /\ pc = "m_ram"
    /\ \E o \in CmdOutcomes("sysctl memsize") :
          Store("RAM_GB", "sysctl memsize", o, mac_ram_gb(get_command_output(o)),
                "m_storage")
MacStorage == pc = "m_storage" /\ RunField("Storage", "diskutil", "gpu")

(* get_windows_info, lines 55-84 *)

\* line 57: import wmi, ImportError selects the fallback of lines 78-84
WinImport ==
    /\ pc = "w_import"
    /\ IF wmiModule
       THEN winPath' = "wmi" /\ pc' = "w_connect"
       ELSE winPath' = "fallback" /\ pc' = "wf_serial"
    /\ lastCall' = NoCall
    /\ UNCHANGED <<system, wmiModule, specs, gpuRet, exc, out, csvFile, jsonFile,
                   fileBase, prompts, calls, attempted, gpuIdx>>

\* lines 58-63: wmi.WMI() and the four [0] lookups; a connection error or an
\* empty answer raises, and nothing but ImportError is caught here
WinConnect ==
    /\ pc = "w_connect"
    /\ \/ pc' = "w_serial" /\ exc' = exc
       \/ \E e \in {"x_wmi", "IndexError"} : Raise(e)
    /\ lastCall' = NoCall
    /\ UNCHANGED <<system, wmiModule, specs, gpuRet, out, csvFile, jsonFile,
                   fileBase, prompts, calls, attempted, winPath, gpuIdx>>

\* self.specs[field] = <attribute of a management object>
WmiField(field, next) ==
    /\ \E value \in WmiTexts : specs' = SetItem(specs, field, value)
    /\ attempted' = attempted \cup {field}
    /\ pc' = next
    /\ lastCall' = NoCall
    /\ UNCHANGED <<system, wmiModule, gpuRet, exc, out, csvFile, jsonFile,
                   fileBase, prompts, calls, winPath, gpuIdx>>

\* lines 65-68
WinSerial == pc = "w_serial" /\ WmiField("Serial_Number", "w_manuf")
WinManufacturer == pc = "w_manuf" /\ WmiField("Manufacturer", "w_model")
WinModel == pc = "w_model" /\ WmiField("Model", "w_cpu")
WinCpu == pc = "w_cpu" /\ WmiField("CPU", "w_ram")

\* line 69
WinRam ==
    /\ pc = "w_ram"
    /\ \E total \in WmiSizes :
          IF FloatRaises(total)
          THEN Raise("TypeError") /\ specs' = specs
          ELSE specs' = SetItem(specs, "RAM_GB", NumV(wmi_gb(total)))
               /\ pc' = "w_storage" /\ exc' = exc
    /\ attempted' = attempted \cup {"RAM_GB"}
    /\ lastCall' = NoCall
    /\ UNCHANGED <<system, wmiModule, gpuRet, out, csvFile, jsonFile,
                   fileBase, prompts, calls, winPath, gpuIdx>>

\* lines 72-76
WinStorage ==
    /\ pc = "w_storage"
    /\ \E disks \in SeqsUpTo([Model : {StrV(<<"k">>)}, Size : WmiSizes], MaxDisks) :
          IF \E i \in 1..Len(disks) : FloatRaises(disks[i].Size)
          THEN Raise("TypeError") /\ specs' = specs
          ELSE specs' = SetItem(specs, "Storage", StrV(join_disks(disks)))
               /\ pc' = "gpu" /\ exc' = exc
    /\ attempted' = attempted \cup {"Storage"}
    /\ lastCall' = NoCall
    /\ UNCHANGED <<system, wmiModule, gpuRet, out, csvFile, jsonFile,
                   fileBase, prompts, calls, winPath, gpuIdx>>

\* lines 80-84
WinFallbackSerial ==
    pc = "wf_serial" /\ RunField("Serial_Number", "wmic bios", "wf_model")
WinFallbackModel ==
    pc = "wf_model" /\ RunField("Model", "wmic computersystem model", "wf_cpu")
WinFallbackCpu == pc = "wf_cpu" /\ RunField("CPU", "wmic cpu", "wf_ram")
WinFallbackRam ==
    pc = "wf_ram" /\ RunField("RAM_GB", "wmic computersystem memory", "wf_storage")
WinFallbackStorage ==
    pc = "wf_storage" /\ RunField("Storage", "wmic diskdrive", "gpu")

(* get_gpu_info, lines 86-118 *)

VideoControllers ==
    SeqsUpTo([Name : {StrV(<<"g">>)}, AdapterRAM : WmiAdapterRams,
              DriverVersion : {StrV(<<"d">>)}], MaxGpus)

\* one probe command whose result is returned as the single descriptor
ProbeReturn(cmd) ==
    \E o \in CmdOutcomes(cmd) :
        /\ Called(cmd, o)
        /\ gpuRet' = PyList(<<Wrapper(get_command_output(o))>>)
        /\ pc' = "merge"

\* one probe command of the Linux chain: `if not gpu_info` tries the next
ProbeOrNext(cmd, next) ==
    \E o \in CmdOutcomes(cmd) :
        /\ Called(cmd, o)
        /\ IF get_command_output(o) = <<>>
           THEN pc' = next /\ gpuRet' = gpuRet
           ELSE pc' = "merge" /\ gpuRet' = PyList(<<Wrapper(get_command_output(o))>>)

\* lines 88-98: the management interface lists the controllers; any
\* exception (the import included) is caught by the bare except of line 99
GpuWindowsWmi ==
    /\ pc = "gpu" /\ system = "Windows"
    /\ \/ /\ wmiModule
          /\ \E found \in VideoControllers :
                gpuRet' = PyList([i \in 1..Len(found) |-> Structured(found[i])])
          /\ pc' = "merge"
       \/ pc' = "g_wfallback" /\ gpuRet' = gpuRet
    /\ lastCall' = NoCall
    /\ UNCHANGED <<system, wmiModule, specs, exc, out, csvFile, jsonFile,
                   fileBase, prompts, calls, attempted, winPath, gpuIdx>>

\* lines 101-102
GpuWindowsFallback ==
    /\ pc = "g_wfallback"
    /\ ProbeReturn("wmic videocontroller")
    /\ UNCHANGED <<system, wmiModule, specs, exc, out, csvFile, jsonFile,
                   fileBase, prompts, attempted, winPath, gpuIdx>>

\* lines 106-107
GpuLspci ==
    /\ pc = "gpu" /\ system = "Linux"
    /\ ProbeOrNext("lspci", "g_nvidia")
    /\ UNCHANGED <<system, wmiModule, specs, exc, out, csvFile, jsonFile,
                   fileBase, prompts, attempted, winPath, gpuIdx>>

\* lines 109-110
GpuNvidiaSmi ==
    /\ pc = "g_nvidia"
    /\ ProbeOrNext("nvidia-smi", "g_glxinfo")
    /\ UNCHANGED <<system, wmiModule, specs, exc, out, csvFile, jsonFile,
                   fileBase, prompts, attempted, winPath, gpuIdx>>

\* lines 112-114
GpuGlxinfo ==
    /\ pc = "g_glxinfo"
    /\ ProbeReturn("glxinfo")
    /\ UNCHANGED <<system, wmiModule, specs, exc, out, csvFile, jsonFile,
                   fileBase, prompts, attempted, winPath, gpuIdx>>

\* lines 117-118
GpuMac ==
    /\ pc = "gpu" /\ system = "Darwin"
    /\ ProbeReturn("system_profiler displays")
    /\ UNCHANGED <<system, wmiModule, specs, exc, out, csvFile, jsonFile,
                   fileBase, prompts, attempted, winPath, gpuIdx>>

\* no branch of lines 87-118 matches: the method falls off its end, so None
GpuOther ==
    /\ pc = "gpu" /\ system \notin Recognized
    /\ gpuRet' = PyNone
    /\ pc' = "merge"
    /\ lastCall' = NoCall
    /\ UNCHANGED <<system, wmiModule, specs, exc, out, csvFile, jsonFile,
                   fileBase, prompts, calls, attempted, winPath, gpuIdx>>

\* the descriptor the loop is at
CurrentGpu == gpuRet.list[gpuIdx + 1]

\* lines 136-138 and 142-145: enumerate(None) raises TypeError; the loop
\* ends after the last descriptor; a descriptor that is not a dict is
\* merged as the one key GPU_<n>
MergeNext ==
    /\ pc = "merge"
    /\ IF gpuRet.none
       THEN Raise("TypeError") /\ UNCHANGED <<specs, gpuIdx>>
       ELSE IF gpuIdx >= Len(gpuRet.list)
       THEN pc' = "save_prompt" /\ UNCHANGED <<specs, gpuIdx, exc>>
       ELSE IF CurrentGpu.dict
       THEN pc' = "merge_name" /\ UNCHANGED <<specs, gpuIdx, exc>>
       ELSE /\ specs' = SetItem(specs, GpuKey(GpuIndex(gpuIdx), ""),
                                StrV(CurrentGpu.text))
            /\ gpuIdx' = gpuIdx + 1
            /\ UNCHANGED <<pc, exc>>
    /\ lastCall' = NoCall
    /\ UNCHANGED <<system, wmiModule, gpuRet, out, csvFile, jsonFile,
                   fileBase, prompts, calls, attempted, winPath>>

\* self.specs[f'GPU_{i+1}{suffix}'] = gpu.get(key, 'Unknown')
MergeKey(suffix, key) ==
    /\ specs' = SetItem(specs, GpuKey(GpuIndex(gpuIdx), suffix),
                        Get(CurrentGpu.items, key, StrV(Unknown)))
    /\ lastCall' = NoCall
    /\ UNCHANGED <<system, wmiModule, gpuRet, exc, out, csvFile, jsonFile,
                   fileBase, prompts, calls, attempted, winPath>>

\* line 139
MergeName ==
    pc = "merge_name" /\ MergeKey("_Name", "Name")
        /\ pc' = "merge_memory" /\ gpuIdx' = gpuIdx

\* line 140
MergeMemory ==
    pc = "merge_memory" /\ MergeKey("_Memory", "Memory")
        /\ pc' = "merge_driver" /\ gpuIdx' = gpuIdx

\* line 141, then the next iteration
MergeDriver ==
    pc = "merge_driver" /\ MergeKey("_Driver", "Driver_Version")
        /\ pc' = "merge" /\ gpuIdx' = gpuIdx + 1

(* save_results, lines 149-185 *)

\* lines 150-166: end of input at the prompt raises EOFError
SavePrompt ==
    /\ pc = "save_prompt"
    /\ \/ \E typed \in TypedNames :
            fileBase' = filename_base(typed) /\ pc' = "save_mkdir" /\ exc' = exc
       \/ Raise("EOFError") /\ fileBase' = fileBase
    /\ lastCall' = NoCall
    /\ UNCHANGED <<system, wmiModule, specs, gpuRet, out, csvFile, jsonFile,
                   prompts, calls, attempted, winPath, gpuIdx>>

\* lines 169-170
SaveMkdir ==
    /\ pc = "save_mkdir"
    /\ \/ pc' = "save_csv" /\ exc' = exc
       \/ Raise("OSError")
    /\ lastCall' = NoCall
    /\ UNCHANGED <<system, wmiModule, specs, gpuRet, out, csvFile, jsonFile,
                   fileBase, prompts, calls, attempted, winPath, gpuIdx>>

\* lines 173-178
SaveCsv ==
    /\ pc = "save_csv"
    /\ \/ /\ csvFile' = [exists |-> TRUE, rows |-> CsvRows(specs)]
          /\ pc' = "save_json" /\ exc' = exc
       \/ Raise("OSError") /\ csvFile' = csvFile
    /\ lastCall' = NoCall
    /\ UNCHANGED <<system, wmiModule, specs, gpuRet, out, jsonFile,
                   fileBase, prompts, calls, attempted, winPath, gpuIdx>>

\* lines 181-185; a failure leaves the CSV report in place
SaveJson ==
    /\ pc = "save_json"
    /\ \/ /\ jsonFile' = [exists |-> TRUE, rows |-> JsonDump(specs)]
          /\ pc' = "print" /\ exc' = exc
       \/ Raise("OSError") /\ jsonFile' = jsonFile
    /\ lastCall' = NoCall
    /\ UNCHANGED <<system, wmiModule, specs, gpuRet, out, csvFile,
                   fileBase, prompts, calls, attempted, winPath, gpuIdx>>

(* __main__, lines 192-201 *)

Line(kind, key, text) == [kind |-> kind, key |-> key, text |-> text]

\* lines 192-197
SummaryLines ==
    <<Line("banner", "", <<>>),
      Line("csv_path", "", fileBase \o <<".", "c", "s", "v">>),
      Line("json_path", "", fileBase \o <<".", "j", "s", "o", "n">>),
      Line("header", "", <<>>)>> \o
    [i \in 1..Len(specs) |-> Line("field", specs[i].k, PyStr(specs[i].v))]

PrintSummary ==
    /\ pc = "print"
    /\ out' = out \o SummaryLines
    /\ pc' = "finally"
    /\ lastCall' = NoCall
    /\ UNCHANGED <<system, wmiModule, specs, gpuRet, exc, csvFile, jsonFile,
                   fileBase, prompts, calls, attempted, winPath, gpuIdx>>

ExceptSilent ==
    /\ pc = "except"
    /\ pc' = "finally"
    /\ lastCall' = NoCall
    /\ UNCHANGED <<system, wmiModule, specs, gpuRet, exc, out, csvFile, jsonFile,
                   fileBase, prompts, calls, attempted, winPath, gpuIdx>>

\* lines 198-199: print(f"Error: {e}")
Except ==
    /\ pc = "except"
    /\ out' = Append(out, Line("error", exc, <<>>))
    /\ pc' = "finally"
    /\ lastCall' = NoCall
    /\ UNCHANGED <<system, wmiModule, specs, gpuRet, exc, csvFile, jsonFile,
                   fileBase, prompts, calls, attempted, winPath, gpuIdx>>

\* lines 200-201: input("\nPress Enter to exit...")
Finally ==
    /\ pc = "finally"
    /\ prompts' = prompts + 1
    /\ pc' = "done"
    /\ lastCall' = NoCall
    /\ UNCHANGED <<system, wmiModule, specs, gpuRet, exc, out, csvFile, jsonFile,
                   fileBase, calls, attempted, winPath, gpuIdx>>

Next ==
    \/ CollectCommon
    \/ LinuxCpu \/ LinuxRam \/ LinuxStorage \/ LinuxSerial \/ LinuxModel
    \/ LinuxManufacturer
    \/ MacSerial \/ MacModel \/ MacCpu \/ MacRam \/ MacStorage
    \/ WinImport \/ WinConnect \/ WinSerial \/ WinManufacturer \/ WinModel
    \/ WinCpu \/ WinRam \/ WinStorage
    \/ WinFallbackSerial \/ WinFallbackModel \/ WinFallbackCpu \/ WinFallbackRam
    \/ WinFallbackStorage
    \/ GpuWindowsWmi \/ GpuWindowsFallback \/ GpuLspci \/ GpuNvidiaSmi
    \/ GpuGlxinfo \/ GpuMac \/ GpuOther
    \/ MergeNext \/ MergeName \/ MergeMemory \/ MergeDriver
    \/ SavePrompt \/ SaveMkdir \/ SaveCsv \/ SaveJson
    \/ PrintSummary \/ Except \/ Finally

Spec == Init /\ [][Next]_vars

\* the run is one sequential thread of blocking calls: whatever statement
\* is next gets executed
FairSpec == Spec /\ WF_vars(Next)

----------------------------------------------------------------------------
(* Vocabulary of the properties *)

CommonSet == {CommonFields[i] : i \in 1..Len(CommonFields)}
PlatformSet == {"CPU", "RAM_GB", "Storage", "Serial_Number", "Model", "Manufacturer"}
TextualFields == {"CPU", "Storage", "Serial_Number", "Model", "Manufacturer"}
GpuProbeCommands == {"lspci", "nvidia-smi", "glxinfo"}

\* collect_info has just returned to line 191
Collected == pc = "save_prompt"
\* exceptions that can only come out of collect_info
CollectRaised == exc \in {"TypeError", "x_wmi", "IndexError"}
AllCommandsFailed == \A i \in 1..Len(calls) : ~calls[i].ok
GpuKeysOf(d) == SelectSeq(Keys(d), LAMBDA k : k \notin CommonSet \cup PlatformSet)
Count(kind) == Len(SelectSeq(out, LAMBDA l : l.kind = kind))
IsWrapper(g) == ~g.dict \/ KeySet(g.items) = {"Name"}
IsStructured(g) == g.dict /\ KeySet(g.items) = {"Name", "Memory", "Driver_Version"}
WrapperText(g) == IF g.dict THEN Get(g.items, "Name", NoneV) ELSE StrV(g.text)

----------------------------------------------------------------------------
(* C1 *)

\* C1: on a platform that is not Linux, Darwin or Windows, collect_info does
\* not raise, the record holds exactly the five common fields, and a run
\* whose report writing succeeds ends with both reports written.
C1_UnrecognizedPlatformCompletes ==
    system \notin Recognized =>
        /\ ~CollectRaised
        /\ (pc # "collect" => Keys(specs) = CommonFields)
        /\ (pc = "done" /\ exc = NoExc => csvFile.exists /\ jsonFile.exists)

----------------------------------------------------------------------------
(* C2 *)

\* C2 as stated: when every command fails (on Windows: on the fallback
\* path), after collect_info every platform-specific textual field of the
\* record is "Not available" and RAM_GB is "Unknown" on each recognized
\* platform.
C2_AllFailedSentinels ==
    (Collected /\ AllCommandsFailed /\ system \in Recognized /\ winPath # "wmi") =>
        /\ \A f \in TextualFields :
              HasKey(specs, f) => Get(specs, f, NoneV) = StrV(NotAvailable)
        /\ Get(specs, "RAM_GB", NoneV) = StrV(Unknown)

\* C2 amended: when every command fails, after collect_info CPU, Storage,
\* Serial_Number and Model (and Manufacturer, where the platform's collector
\* sets it) are "Not available"; RAM_GB is "Unknown" on Linux and macOS and
\* "Not available" on the Windows fallback path, which converts nothing.
C2_AllFailedSentinelsPerPlatform ==
    (Collected /\ AllCommandsFailed /\ system \in Recognized /\ winPath # "wmi") =>
        /\ \A f \in {"CPU", "Storage", "Serial_Number", "Model"} :
              HasKey(specs, f) /\ Get(specs, f, NoneV) = StrV(NotAvailable)
        /\ HasKey(specs, "Manufacturer") =>
              Get(specs, "Manufacturer", NoneV) = StrV(NotAvailable)
        /\ HasKey(specs, "RAM_GB")
        /\ Get(specs, "RAM_GB", NoneV) =
              (IF system = "Windows" THEN StrV(NotAvailable) ELSE StrV(Unknown))

C2_Witness ==
    /\ Collected /\ AllCommandsFailed /\ system = "Linux"
    /\ Get(specs, "RAM_GB", NoneV) = StrV(Unknown)
    /\ Get(specs, "Manufacturer", NoneV) = StrV(NotAvailable)

----------------------------------------------------------------------------
(* C3 *)

\* res is raw without its leading and trailing whitespace
IsTrimOf(res, raw) ==
    \E i \in 0..Len(raw), j \in 0..Len(raw) :
        /\ i + j <= Len(raw)
        /\ res = SubSeq(raw, i + 1, Len(raw) - j)
        /\ \A k \in 1..i : raw[k] \in Whitespace
        /\ \A k \in (Len(raw) - j + 1)..Len(raw) : raw[k] \in Whitespace
        /\ res # <<>> => res[1] \notin Whitespace /\ res[Len(res)] \notin Whitespace

\* C3: whatever a command does, get_command_output raises nothing and the
\* collection goes on with its next statement; a failed command yields
\* exactly "Not available", a successful one its output with leading and
\* trailing whitespace trimmed.
C3_RunnerNeverRaises ==
    lastCall.made =>
        /\ exc = NoExc
        /\ pc \notin {"except", "finally", "done"}
        /\ ~lastCall.ok => lastCall.res = NotAvailable
        /\ lastCall.ok => IsTrimOf(lastCall.res, lastCall.raw)

C3_Witness ==
    /\ lastCall.made /\ lastCall.ok
    /\ lastCall.res # <<>>
    /\ Len(lastCall.res) + 2 = Len(lastCall.raw)

----------------------------------------------------------------------------
(* C4 *)

----------------------------------------------------------------------------
(* C5 *)

LinuxProbe == SelectSeq(calls, LAMBDA c : c.cmd \in GpuProbeCommands)
Productive(c) == c.ok /\ c.out # <<>>

\* C5: on Linux the probe runs lspci, nvidia-smi, glxinfo in that order, a
\* later command exactly when every earlier one gave no GPU text (empty or
\* failed), and the single descriptor's name is the first non-empty
\* successful output.
C5_LinuxProbeFirstSuccessWins ==
    (system = "Linux" /\ pc = "merge") =>
        LET probe == LinuxProbe
            order == <<"lspci", "nvidia-smi", "glxinfo">>
        IN  /\ Len(probe) \in 1..3
            /\ \A k \in 1..Len(probe) : probe[k].cmd = order[k]
            /\ \A k \in 2..3 :
                  (Len(probe) >= k) <=> (\A j \in 1..(k - 1) : ~Productive(probe[j]))
            /\ Len(gpuRet.list) = 1
            /\ \A k \in 1..Len(probe) :
                  (Productive(probe[k]) /\ \A j \in 1..(k - 1) : ~Productive(probe[j]))
                      => WrapperText(gpuRet.list[1]) = StrV(probe[k].out)

----------------------------------------------------------------------------
(* C6 *)

\* C6: at every point of the run, every platform-specific field whose
\* assignment has been attempted is present in the record.
C6_AttemptedFieldsPresent == \A f \in attempted : HasKey(specs, f)

----------------------------------------------------------------------------
(* C7 *)

\* C7: every run reaches the exit prompt, shows it exactly once, and ends
\* either failed, with one Error line and neither banner nor paths, or
\* successful, with the banner, both paths, every field and no Error line.
C7_ExitPromptAlwaysReached ==
    /\ <>(pc = "done")
    /\ [](prompts <= 1)
    /\ [](pc = "done" =>
            /\ prompts = 1
            /\ exc # NoExc =>
                  /\ Count("error") = 1
                  /\ Count("banner") = 0
                  /\ Count("csv_path") = 0 /\ Count("json_path") = 0
            /\ exc = NoExc =>
                  /\ Count("error") = 0
                  /\ Count("banner") = 1
                  /\ Count("csv_path") = 1 /\ Count("json_path") = 1
                  /\ \A i \in 1..Len(specs) :
                        \E l \in 1..Len(out) :
                            /\ out[l].kind = "field"
                            /\ out[l].key = specs[i].k
                            /\ out[l].text = PyStr(specs[i].v))

C7_Witness ==
    pc = "done" /\ prompts = 1 /\ exc = "TypeError" /\ Count("error") = 1

----------------------------------------------------------------------------
(* C8 *)

\* C8: on the Windows fallback path get_windows_info sets the same field
\* names as the structured path, each holding the text the command runner
\* returned.
C8_FallbackSameFields ==
    (winPath = "fallback" /\ pc = "gpu") =>
        /\ KeySet(specs) \ CommonSet = PlatformSet
        /\ \A f \in PlatformSet :
              \E i \in 1..Len(calls) : Get(specs, f, NoneV) = StrV(calls[i].out)

----------------------------------------------------------------------------
(* C9 *)

\* the text Python's str() gives the value a JSON member parses back to
JsonText(j) ==
    CASE j.jt = "string" -> j.s
      [] j.jt = "number" -> FloatStr(j.n)
      [] j.jt = "null" -> <<"N","o","n","e">>

FieldClass(k) == IF k \in CommonSet THEN 0 ELSE IF k \in PlatformSet THEN 1 ELSE 2

\* C9: once save_results has written both reports, the CSV data rows and
\* the JSON members carry exactly the record's keys in insertion order
\* (common, then platform-specific, then GPU), and each CSV value is the
\* string form of the JSON value under the same key.
C9_ReportsAgree ==
    (csvFile.exists /\ jsonFile.exists) =>
        LET data == Tail(csvFile.rows)
            json == jsonFile.rows
        IN  /\ Head(csvFile.rows).k = "Specification"
            /\ Keys(data) = Keys(specs)
            /\ Keys(json) = Keys(specs)
            /\ \A i \in 1..Len(json) : data[i].v = JsonText(json[i].v)
            /\ \A i \in 1..Len(json) :
                  (specs[i].v.t = "num") <=> (json[i].v.jt = "number")
            /\ \A i \in 1..Len(json), j \in 1..Len(json) :
                  i < j => /\ json[i].k # json[j].k
                           /\ FieldClass(json[i].k) <= FieldClass(json[j].k)

C9_Witness ==
    /\ csvFile.exists /\ jsonFile.exists
    /\ Get(specs, "RAM_GB", NoneV) = NumV(1600)
    /\ HasKey(specs, "GPU_1_Name")
    /\ \E i \in 1..Len(csvFile.rows) :
          csvFile.rows[i] = [k |-> "RAM_GB", v |-> <<"1", "6", ".", "0">>]

----------------------------------------------------------------------------
(* C10 *)

GpuSuffix(r) == CASE r = 0 -> "_Name" [] r = 1 -> "_Memory" [] r = 2 -> "_Driver"
ExpectedGpuKeys(n) ==
    [j \in 1..(3 * n) |-> "GPU_" \o ToString(((j - 1) \div 3) + 1) \o GpuSuffix((j - 1) % 3)]

\* C10: when the probe returns n structured descriptors, the record's GPU
\* keys after collect_info are exactly GPU_i_Name, GPU_i_Memory,
\* GPU_i_Driver for i = 1..n, in that order, and no other GPU key.
C10_StructuredGpuKeys ==
    (Collected /\ ~gpuRet.none
        /\ \A n \in 1..Len(gpuRet.list) : IsStructured(gpuRet.list[n])) =>
        GpuKeysOf(specs) = ExpectedGpuKeys(Len(gpuRet.list))

C10_Witness ==
    /\ Collected /\ Len(gpuRet.list) = 2
    /\ \A n \in 1..2 : IsStructured(gpuRet.list[n])
    /\ GpuKeysOf(specs) = <<"GPU_1_Name", "GPU_1_Memory", "GPU_1_Driver",
                            "GPU_2_Name", "GPU_2_Memory", "GPU_2_Driver">>
====
